---- MODULE Spec2Model ----
(***************************************************************************)
(* A model of the tango-snap7 device class (Snap7.py): register parsing,   *)
(* the dynamic-attribute registry, the memory-area accessors and the       *)
(* locked read-modify-write of write_boolean_bit, as executed by several   *)
(* concurrent request threads of the device server.                        *)
(*                                                                         *)
(* Python strings that the code inspects character by character (register  *)
(* descriptors, area names) are sequences of one-character strings.        *)
(* Python values handed to a write are tagged records (PyBoolV, PyIntV,    *)
(* PyStrV).                                                                *)
(***************************************************************************)
EXTENDS Integers, Sequences, FiniteSets, TLC

(***************************************************************************)
(* Bounds of the model.                                                    *)
(***************************************************************************)
NumThreads == 2    \* request threads of the device server
MaxCalls == 2      \* requests made in a run with concurrent threads
MaxSeqCalls == 1   \* requests made in a run with one thread
MaxRWCalls == 3    \* requests made in a run of reads and writes with one thread
MaxRegLen == 6     \* length of the register descriptors tried
MaxOffset == 6     \* last byte offset of each PLC memory area

Threads == 1..NumThreads
NoThread == 0

(***************************************************************************)
(* Characters and the classes used by the register pattern.                *)
(***************************************************************************)
Letters == {"A", "B", "D", "E", "I", "Q", "X", "Y", "a", "b", "d", "e", "i", "q"}
Digits == {"0", "1", "2", "3", "4", "5", "6", "7", "8", "9"}
Newline == "\n"

IsLetter(c) == c \in Letters
IsDigit(c) == c \in Digits

DigitVal(c) ==
  CASE c = "0" -> 0 [] c = "1" -> 1 [] c = "2" -> 2 [] c = "3" -> 3
    [] c = "4" -> 4 [] c = "5" -> 5 [] c = "6" -> 6 [] c = "7" -> 7
    [] c = "8" -> 8 [] c = "9" -> 9

\* int(s) of a non-empty string of decimal digits.
RECURSIVE PyInt(_)
PyInt(s) ==
  IF Len(s) = 0 THEN 0
  ELSE 10 * PyInt(SubSeq(s, 1, Len(s) - 1)) + DigitVal(s[Len(s)])

\* The first position at or after i whose character is not a letter / digit
\* (Len(s) + 1 when there is none): a greedy [A-Za-z]* or \d* from i.
RECURSIVE SkipLetters(_, _)
SkipLetters(s, i) ==
  IF i <= Len(s) /\ IsLetter(s[i]) THEN SkipLetters(s, i + 1) ELSE i

RECURSIVE SkipDigits(_, _)
SkipDigits(s, i) ==
  IF i <= Len(s) /\ IsDigit(s[i]) THEN SkipDigits(s, i + 1) ELSE i

\* Python's "$" (no MULTILINE flag) at position i: the end of the string, or
\* just before a newline that is the last character of the string.
AtDollar(s, i) ==
  \/ i = Len(s) + 1
  \/ i = Len(s) /\ s[i] = Newline

NoMatch == [ok |-> FALSE, g1 |-> <<>>, g2 |-> <<>>, g3 |-> <<>>, g4 |-> <<>>, has4 |-> FALSE]

\* re.match(r"^([A-Za-z]+)(\d*)\.(\d+)(?:\.(\d+))?$", register): the groups,
\* has4 telling whether group 4 took part in the match.  The classes of the
\* pattern are disjoint, so the greedy scan is the only way to match.
RegisterMatch(s) ==
  LET a == SkipLetters(s, 1)
      b == SkipDigits(s, a)
      c == SkipDigits(s, b + 1)
      d == SkipDigits(s, c + 1)
      with4 == c <= Len(s) /\ s[c] = "." /\ d > c + 1 /\ AtDollar(s, d)
  IN IF a = 1 \/ b > Len(s) \/ s[b] # "." \/ c = b + 1 THEN NoMatch
     ELSE IF with4
       THEN [ok |-> TRUE, g1 |-> SubSeq(s, 1, a - 1), g2 |-> SubSeq(s, a, b - 1),
             g3 |-> SubSeq(s, b + 1, c - 1), g4 |-> SubSeq(s, c + 1, d - 1), has4 |-> TRUE]
     ELSE IF AtDollar(s, c)
       THEN [ok |-> TRUE, g1 |-> SubSeq(s, 1, a - 1), g2 |-> SubSeq(s, a, b - 1),
             g3 |-> SubSeq(s, b + 1, c - 1), g4 |-> <<>>, has4 |-> FALSE]
     ELSE NoMatch

NoParts == [area |-> <<>>, subarea |-> 0, offset |-> 0, suboffset |-> 0]

\* A parser that also refuses the area letters the accessors do not know.
get_register_parts_checked(register) ==
  LET m == RegisterMatch(register)
  IN IF ~m.ok \/ m.g1 \notin {<<"D", "B">>, <<"E">>, <<"I">>, <<"A">>, <<"Q">>}
     THEN [raised |-> TRUE, parts |-> NoParts]
     ELSE [raised |-> FALSE,
           parts |-> [area |-> m.g1,
                      subarea |-> IF m.g2 # <<>> THEN PyInt(m.g2) ELSE 0,
                      offset |-> PyInt(m.g3),
                      suboffset |-> IF m.has4 /\ m.g4 # <<>> THEN PyInt(m.g4) ELSE 0]]

\* get_register_parts(register): raised tells that the call raised.
get_register_parts(register) ==
  LET m == RegisterMatch(register)
  IN IF ~m.ok THEN [raised |-> TRUE, parts |-> NoParts]
     ELSE [raised |-> FALSE,
           parts |-> [area |-> m.g1,
                      subarea |-> IF m.g2 # <<>> THEN PyInt(m.g2) ELSE 0,
                      offset |-> PyInt(m.g3),
                      suboffset |-> IF m.has4 /\ m.g4 # <<>> THEN PyInt(m.g4) ELSE 0]]


(***************************************************************************)
(* Python values.  k is the Python type of the value.                      *)
(***************************************************************************)
PyBoolV(b) == [k |-> "bool", b |-> b, n |-> 0, s |-> ""]
PyIntV(n) == [k |-> "int", b |-> FALSE, n |-> n, s |-> ""]
PyStrV(s) == [k |-> "str", b |-> FALSE, n |-> 0, s |-> s]

\* str(n) for the integers the model hands to a write.
IntText(n) ==
  CASE n = 0 -> "0" [] n = 1 -> "1" [] n = 2 -> "2" [] n = -1 -> "-1"

\* str(value), as write_dynamic_attr applies it to the written value.
PyStr(v) ==
  CASE v.k = "bool" -> PyStrV(IF v.b THEN "True" ELSE "False")
    [] v.k = "int" -> PyStrV(IntText(v.n))
    [] v.k = "str" -> v

\* bool(value): the truth value Python gives a bool, an int or a str.
PyBool(v) ==
  CASE v.k = "bool" -> v.b
    [] v.k = "int" -> v.n # 0
    [] v.k = "str" -> v.s # ""

\* int(value), as snap7.util.set_dint applies it: raised on a string that is
\* not a decimal integer.
PyIntOf(v) ==
  CASE v.k = "bool" -> [raised |-> FALSE, n |-> IF v.b THEN 1 ELSE 0]
    [] v.k = "int" -> [raised |-> FALSE, n |-> v.n]
    [] v.k = "str" ->
         IF \E n \in {-1, 0, 1, 2} : IntText(n) = v.s
         THEN [raised |-> FALSE, n |-> CHOOSE n \in {-1, 0, 1, 2} : IntText(n) = v.s]
         ELSE [raised |-> TRUE, n |-> 0]

(***************************************************************************)
(* Bytes and the snap7.util bit helpers.                                   *)
(***************************************************************************)
Byte == 0..255

RECURSIVE Pow2(_)
Pow2(i) == IF i = 0 THEN 1 ELSE 2 * Pow2(i - 1)

\* byte & (1 << i) == (1 << i)
get_bool(byte, bool_index) == (byte \div Pow2(bool_index)) % 2 = 1

\* snap7.util.set_bool(data, 0, bool_index, value) on a one-byte buffer: the
\* byte is left alone when the bit already has the value, else 1 << bool_index
\* is added or subtracted; the bytearray refuses a result outside 0..255, and
\* 1 << bool_index raises on a negative bool_index.
set_bool(byte, bool_index, value) ==
  LET index_value == Pow2(bool_index)
      result == IF get_bool(byte, bool_index) = value THEN byte
                ELSE IF value THEN byte + index_value ELSE byte - index_value
  IN IF bool_index < 0 THEN [raised |-> TRUE, byte |-> byte]
     ELSE IF result \in Byte THEN [raised |-> FALSE, byte |-> result]
     ELSE [raised |-> TRUE, byte |-> byte]

\* snap7.util.set_dint on a zeroed 4-byte buffer: struct.pack(">i", int(v)),
\* big-endian two's complement (the bytes of a negative n are the complements
\* of the bytes of -n - 1).
set_dint(v) ==
  LET i == PyIntOf(v)
      m == IF i.n < 0 THEN 0 - (i.n + 1) ELSE i.n
      B(x) == IF i.n < 0 THEN 255 - x ELSE x
  IN IF i.raised \/ i.n < (0 - 2147483647) - 1 \/ i.n > 2147483647
     THEN [raised |-> TRUE, data |-> <<>>]
     ELSE [raised |-> FALSE,
           data |-> << B((m \div 16777216) % 256), B((m \div 65536) % 256),
                       B((m \div 256) % 256), B(m % 256) >>]

\* The four bytes taken least significant byte first.
get_dint_le(data) ==
  IF data[4] < 128
  THEN data[4] * 16777216 + data[3] * 65536 + data[2] * 256 + data[1]
  ELSE 0 - ((255 - data[4]) * 16777216 + (255 - data[3]) * 65536
            + (255 - data[2]) * 256 + (255 - data[1])) - 1

\* snap7.util.get_dint: struct.unpack(">i") of four bytes.
get_dint(data) ==
  IF data[1] < 128
  THEN data[1] * 16777216 + data[2] * 65536 + data[3] * 256 + data[4]
  ELSE 0 - ((255 - data[1]) * 16777216 + (255 - data[2]) * 65536
            + (255 - data[3]) * 256 + (255 - data[4])) - 1

(***************************************************************************)
(* Python strings written to and read from String attributes.  A str is a  *)
(* TLA+ string; TextCodes gives its characters as code points (ord).       *)
(***************************************************************************)
Texts == {"", "a", "ab", "abc", "abcd", "é", "éa", "€"}

\* A str of characters the model has no name for.
OtherText == "<other>"

TextCodes(s) ==
  CASE s = "" -> <<>>
    [] s = "a" -> <<97>>
    [] s = "ab" -> <<97, 98>>
    [] s = "abc" -> <<97, 98, 99>>
    [] s = "abcd" -> <<97, 98, 99, 100>>
    [] s = "é" -> <<233>>
    [] s = "éa" -> <<233, 97>>
    [] s = "€" -> <<8364>>

\* "".join(map(chr, codes))
CodesText(codes) ==
  IF \E s \in Texts : TextCodes(s) = codes
  THEN CHOOSE s \in Texts : TextCodes(s) = codes
  ELSE OtherText

Space == 32
MaxStringSize == 254
DefaultStringLength == 254

\* snap7.util.set_string(data, 0, value, max_size) on a zeroed buffer of size
\* bytes: refused when value is no str, max_size exceeds 254, a character is
\* above 255 or there are more characters than max_size; else byte 0 is
\* max_size, byte 1 the number of characters, each character one byte, and
\* spaces up to index max_size.
set_string(size, value, max_size) ==
  LET codes == TextCodes(value.s)
      n == Len(codes)
      i == IF n = 0 THEN 0 ELSE n - 1
  IN IF \/ value.k # "str"
        \/ max_size > MaxStringSize
        \/ \E j \in 1..n : codes[j] > 255
        \/ n > max_size
        \/ size < 2
     THEN [raised |-> TRUE, data |-> <<>>]
     ELSE [raised |-> FALSE,
           data |-> [x \in 1..size |->
                       IF x = 1 THEN max_size
                       ELSE IF x = 2 THEN n
                       ELSE IF x - 2 <= n THEN codes[x - 2]
                       ELSE IF x - 3 >= i + 1 /\ x - 3 < max_size - 1 THEN Space
                       ELSE 0]]

\* snap7.util.get_string(data, 0): refused when the length byte exceeds the
\* size byte or the size byte exceeds 254; else the characters of the bytes
\* data[2 : 2 + length].
get_string(data) ==
  LET max_string_size == data[1]
      str_length == data[2]
      upto == IF 2 + str_length < Len(data) THEN 2 + str_length ELSE Len(data)
  IN IF Len(data) < 2 \/ str_length > max_string_size \/ max_string_size > MaxStringSize
     THEN [raised |-> TRUE, value |-> PyStrV("")]
     ELSE [raised |-> FALSE, value |-> PyStrV(CodesText(SubSeq(data, 3, upto)))]

(***************************************************************************)
(* The value codec.  The float types (struct-packed IEEE values) are not   *)
(* modelled.                                                               *)
(***************************************************************************)
\* bytes_per_variable_type: none tells that the chain of elifs fell through
\* and the function returned None.
bytes_per_variable_type(variableType, customLength) ==
  CASE variableType = "DevFloat" -> [none |-> FALSE, n |-> 4]
    [] variableType = "DevDouble" -> [none |-> FALSE, n |-> 8]
    [] variableType = "DevLong" -> [none |-> FALSE, n |-> 4]
    [] variableType = "DevBoolean" -> [none |-> FALSE, n |-> 1]
    [] variableType = "DevString" -> [none |-> FALSE, n |-> customLength]
    [] OTHER -> [none |-> TRUE, n |-> 0]

\* The declared length of a String: the qualifier, 254 when it is 0.
CustomLength(variableType, suboffset) ==
  IF variableType = "DevString"
  THEN IF suboffset = 0 THEN DefaultStringLength ELSE suboffset
  ELSE 0

\* variable_to_bytedata: bytearray(None) raises for an unsupported type.
variable_to_bytedata(variable, variableType, suboffset) ==
  LET customLength == CustomLength(variableType, suboffset)
      size == bytes_per_variable_type(variableType, customLength + 2)
  IN IF size.none \/ variableType \notin {"DevLong", "DevBoolean", "DevString"}
     THEN [raised |-> TRUE, data |-> <<>>]
     ELSE IF variableType = "DevLong" THEN set_dint(variable)
     ELSE IF variableType = "DevBoolean"
       THEN LET b == IF variable.k = "bool" \/ (variable.k = "int" /\ variable.n \in {0, 1})
                     THEN set_bool(0, suboffset, PyBool(variable))
                     ELSE [raised |-> TRUE, byte |-> 0]
            IN [raised |-> b.raised, data |-> <<b.byte>>]
     ELSE set_string(size.n, variable, customLength)

\* bytedata_to_variable(data, variableType, 0, suboffset).
bytedata_to_variable(data, variableType, suboffset) ==
  IF variableType = "DevLong"
  THEN IF Len(data) < 4 THEN [raised |-> TRUE, value |-> PyIntV(0)]
       ELSE [raised |-> FALSE, value |-> PyIntV(get_dint(data))]
  ELSE IF variableType = "DevBoolean"
  THEN IF suboffset < 0 \/ Len(data) < 1 THEN [raised |-> TRUE, value |-> PyBoolV(FALSE)]
       ELSE [raised |-> FALSE, value |-> PyBoolV(get_bool(data[1], suboffset))]
  ELSE IF variableType = "DevString" THEN get_string(data)
  ELSE [raised |-> TRUE, value |-> PyIntV(0)]

(***************************************************************************)
(* The PLC memory behind the snap7 client: data blocks 1 and 2, the input  *)
(* bytes (PE) and the output bytes (PA), each MaxOffset + 1 bytes long.    *)
(***************************************************************************)
DataBlocks == {1, 2}
Offsets == 0..MaxOffset
Cells == ({"DB"} \X DataBlocks \X Offsets) \cup ({"PE", "PA"} \X {0} \X Offsets)

AreaDB == <<"D", "B">>
AreaE == <<"E">>
AreaI == <<"I">>
AreaA == <<"A">>
AreaQ == <<"Q">>

\* The if/elif chain of the two accessors: the client memory an area name
\* selects, "none" for the final else (raise "unsupported area type").
AreaKind(area) ==
  IF area = AreaDB THEN "DB"
  ELSE IF area = AreaE \/ area = AreaI THEN "PE"
  ELSE IF area = AreaA \/ area = AreaQ THEN "PA"
  ELSE "none"

\* The address of byte i of an access: db_read/db_write take the block number,
\* eb_* and ab_* do not.
CellOf(area, subarea, offset) ==
  <<AreaKind(area), IF AreaKind(area) = "DB" THEN subarea ELSE 0, offset>>

AccessCells(area, subarea, offset, size) ==
  {CellOf(area, subarea, offset + i) : i \in 0..(size - 1)}

\* Whether the client call can succeed at all: the area is supported and the
\* bytes exist in the PLC.
Addressable(area, subarea, offset, size) ==
  /\ AreaKind(area) # "none"
  /\ AccessCells(area, subarea, offset, size) \subseteq Cells

\* read_data_from_area_offset_size on success: the bytes read.
read_data_from_area_offset_size(m, area, subarea, offset, size) ==
  [i \in 1..size |-> m[CellOf(area, subarea, offset + i - 1)]]

\* write_data_to_area_offset_size on success: the memory after the write.
write_data_to_area_offset_size(m, area, subarea, offset, data) ==
  [c \in Cells |->
     IF \E i \in 1..Len(data) : c = CellOf(area, subarea, offset + i - 1)
     THEN data[CHOOSE i \in 1..Len(data) : c = CellOf(area, subarea, offset + i - 1)]
     ELSE m[c]]


(***************************************************************************)
(* The device state.                                                       *)
(***************************************************************************)
VARIABLES
  dynamicAttributes,     \* topic -> [variableType, register, register_parts, value]
  bit_byte_locks,        \* key -> lock object (an index into lock_owner)
  bit_byte_create_lock,  \* the thread holding the creation lock, or NoThread
  lock_owner,            \* per Lock() object created: its holder, or NoThread
  lock_made_for,         \* per Lock() object created: the register_parts of the call that made it
  mem,                   \* PLC memory: cell -> byte
  pc,                    \* per thread: the line it is about to execute
  frame,                 \* per thread: the locals of the running request
  result,                \* per thread: the last request of the thread that returned
  calls,                 \* number of requests started
  mem_init,              \* the PLC memory when the device connected
  last                   \* the last add_dynamic_attribute command and its outcome

vars == <<dynamicAttributes, bit_byte_locks, bit_byte_create_lock, lock_owner,
          lock_made_for, mem, pc, frame, result, calls, mem_init, last>>

VarTypes == {"DevBoolean", "DevLong", "DevString"}

\* stringValueToVarType for the type names the model registers.
stringValueToVarType(variable_type_name) ==
  IF variable_type_name \in VarTypes
  THEN [raised |-> FALSE, type |-> variable_type_name]
  ELSE IF variable_type_name = ""
  THEN [raised |-> FALSE, type |-> "DevString"]
  ELSE [raised |-> TRUE, type |-> ""]

NoFrame ==
  [name |-> "", value |-> PyIntV(0), parts |-> NoParts, data |-> <<>>,
   lock |-> 0, raised |-> FALSE, reads |-> 0, writes |-> 0, done |-> FALSE,
   op |-> "", raw |-> PyIntV(0), cause |-> "", type |-> "", size |-> 0,
   none |-> FALSE]

\* stage: "" before any command, else where the command ended: "no_topic"
\* (line 89), "type" (line 91 raised), "parse" (line 104 raised), "added".
NoLast == [register |-> <<>>, stage |-> ""]

\* The registry entry add_dynamic_attribute stores (line 106).
Binding(variableType, register, register_parts) ==
  [variableType |-> variableType, register |-> register,
   register_parts |-> register_parts, value |-> PyIntV(0)]

\* f with key k set to v (a Python dict assignment).
DictSet(f, k, v) == [x \in (DOMAIN f) \cup {k} |-> IF x = k THEN v ELSE f[x]]

\* The registry after init_device has added the attributes of the
\* init_dynamic_attributes property, a list of <<name, register, data_type>>.
RECURSIVE InitRegistry(_)
InitRegistry(attributes) ==
  IF Len(attributes) = 0 THEN <<>>
  ELSE LET a == attributes[Len(attributes)]
           rest == InitRegistry(SubSeq(attributes, 1, Len(attributes) - 1))
       IN DictSet(rest, a[1],
                  Binding(stringValueToVarType(a[3]).type, a[2],
                          get_register_parts(a[2]).parts))

\* A table keyed by the whole address of the byte instead of its offset.
LockKeyScoped(register_parts) ==
  <<register_parts.area, register_parts.subarea, register_parts.offset>>

\* The key of bit_byte_locks a bit write uses (line 273: offset, and lines
\* 277-280: self.bit_byte_locks[offset]).
LockKey(register_parts) == register_parts.offset

\* A lock released by lock.release() after the write only: an exception in
\* the block leaves it held.
LockOnExitLeak(t, raised) == IF raised THEN t ELSE NoThread

\* The holder of a lock after the "with lock:" block of thread t is left,
\* normally or by an exception.
LockOnExit(t, raised) == NoThread

\* Entering the creation block without taking the creation lock.
CreateLockNotTaken(t) == NoThread

\* The holder of bit_byte_create_lock once thread t has entered
\* "with self.bit_byte_create_lock" (line 278).
CreateLockOnEnter(t) == t

\* The holder of bit_byte_create_lock kept after the block.
CreateLockOnExitKept(t) == t

\* The holder of bit_byte_create_lock once thread t has left
\* "with self.bit_byte_create_lock" (lines 278-279).
CreateLockOnExit(t) == NoThread

\* A publish that encodes every type with variable_to_bytedata.
UsesBitWriteNever(variableType) == FALSE

\* publish, line 264: the types written by write_boolean_bit.
UsesBitWrite(variableType) == variableType = "DevBoolean"


(***************************************************************************)
(* Requests.  A thread is idle or inside one request; pc names the line    *)
(* of Snap7.py it executes next.                                           *)
(***************************************************************************)
Registered == DOMAIN dynamicAttributes

\* The request of thread t returns (raised: with an exception).
Return(t, f, raised) ==
  /\ pc' = [pc EXCEPT ![t] = "idle"]
  /\ frame' = [frame EXCEPT ![t] = NoFrame]
  /\ result' = [result EXCEPT ![t] = [f EXCEPT !.raised = raised, !.done = TRUE]]

\* An accessor call of size bytes succeeds only when the address exists; it
\* may raise in any case (the final else of the accessor, or the client call
\* failing on the address or on the transport).
CanSucceed(parts, size) == Addressable(parts.area, parts.subarea, parts.offset, size)
CanFail(parts, size) == TRUE

\* A request starts: the thread leaves idle with the locals of the handler.
Enter(t, op, name, raw, at) ==
  /\ pc[t] = "idle"
  /\ name \in Registered
  /\ pc' = [pc EXCEPT ![t] = at]
  /\ frame' = [frame EXCEPT ![t] = [NoFrame EXCEPT !.op = op, !.name = name, !.raw = raw]]
  /\ calls' = calls + 1
  /\ last' = NoLast

\* write_dynamic_attr, lines 253-255: the written value, as a string, is
\* stored in the registry entry; publish(name) follows.
WriteDynamicAttr(t, name, raw) ==
  /\ Enter(t, "write_dynamic_attr", name, raw, "publish")
  /\ dynamicAttributes' = [dynamicAttributes EXCEPT ![name].value = PyStr(raw)]
  /\ UNCHANGED <<bit_byte_locks, bit_byte_create_lock, lock_owner, lock_made_for,
                 mem, result, mem_init>>

\* write_attr of the test suite: the value is stored as it is; publish(name)
\* follows.
write_attr(t, name, raw) ==
  /\ Enter(t, "write_attr", name, raw, "publish")
  /\ dynamicAttributes' = [dynamicAttributes EXCEPT ![name].value = raw]
  /\ UNCHANGED <<bit_byte_locks, bit_byte_create_lock, lock_owner, lock_made_for,
                 mem, result, mem_init>>

\* The publish command called directly: it publishes the stored value.
PublishCommand(t, name) ==
  /\ Enter(t, "publish", name, dynamicAttributes[name].value, "publish")
  /\ UNCHANGED <<dynamicAttributes, bit_byte_locks, bit_byte_create_lock, lock_owner,
                 lock_made_for, mem, result, mem_init>>

\* publish, lines 260-267, and for a Boolean the locals of write_boolean_bit,
\* lines 271-276: the string "False" becomes False, any other value is kept.
Publish(t) ==
  /\ pc[t] = "publish"
  /\ LET b == dynamicAttributes[frame[t].name]
         f == [frame[t] EXCEPT !.value = b.value, !.parts = b.register_parts,
                               !.type = b.variableType]
     IN IF UsesBitWrite(b.variableType)
        THEN /\ frame' = [frame EXCEPT ![t] =
                   [f EXCEPT !.value = IF b.value = PyStrV("False")
                                       THEN PyBoolV(FALSE) ELSE b.value]]
             /\ pc' = [pc EXCEPT ![t] = "wbb_check"]
             /\ result' = result
        ELSE LET enc == variable_to_bytedata(b.value, b.variableType,
                                             b.register_parts.suboffset)
             IN IF enc.raised
                THEN Return(t, [f EXCEPT !.cause = "value"], TRUE)
                ELSE /\ frame' = [frame EXCEPT ![t] =
                          [f EXCEPT !.data = enc.data, !.size = Len(enc.data)]]
                     /\ pc' = [pc EXCEPT ![t] = "publish_write"]
                     /\ result' = result
  /\ UNCHANGED <<dynamicAttributes, bit_byte_locks, bit_byte_create_lock, lock_owner,
                 lock_made_for, mem, calls, mem_init, last>>

\* publish, line 268: the encoded value is written; the request returns.
PublishWrite(t) ==
  /\ pc[t] = "publish_write"
  /\ LET f == [frame[t] EXCEPT !.writes = @ + 1]
         p == f.parts
     IN \/ /\ CanSucceed(p, Len(f.data))
           /\ mem' = write_data_to_area_offset_size(mem, p.area, p.subarea, p.offset, f.data)
           /\ Return(t, f, FALSE)
        \/ /\ CanFail(p, Len(f.data))
           /\ mem' = mem
           /\ Return(t, [f EXCEPT !.cause = "accessor"], TRUE)
  /\ UNCHANGED <<dynamicAttributes, bit_byte_locks, bit_byte_create_lock, lock_owner,
                 lock_made_for, calls, mem_init, last>>

\* write_boolean_bit, line 277: "if offset not in self.bit_byte_locks".
WbbCheck(t) ==
  /\ pc[t] = "wbb_check"
  /\ pc' = [pc EXCEPT ![t] =
       IF LockKey(frame[t].parts) \in DOMAIN bit_byte_locks
       THEN "wbb_lookup" ELSE "wbb_create_acquire"]
  /\ UNCHANGED <<dynamicAttributes, bit_byte_locks, bit_byte_create_lock, lock_owner,
                 lock_made_for, mem, frame, result, calls, mem_init, last>>

\* Line 278: "with self.bit_byte_create_lock" is entered.
WbbCreateAcquire(t) ==
  /\ pc[t] = "wbb_create_acquire"
  /\ bit_byte_create_lock = NoThread
  /\ bit_byte_create_lock' = CreateLockOnEnter(t)
  /\ pc' = [pc EXCEPT ![t] = "wbb_create_store"]
  /\ UNCHANGED <<dynamicAttributes, bit_byte_locks, lock_owner, lock_made_for, mem,
                 frame, result, calls, mem_init, last>>

\* Line 279: "self.bit_byte_locks[offset] = Lock()".
WbbCreateStore(t) ==
  /\ pc[t] = "wbb_create_store"
  /\ lock_owner' = Append(lock_owner, NoThread)
  /\ lock_made_for' = Append(lock_made_for, frame[t].parts)
  /\ bit_byte_locks' = DictSet(bit_byte_locks, LockKey(frame[t].parts), Len(lock_owner) + 1)
  /\ pc' = [pc EXCEPT ![t] = "wbb_create_release"]
  /\ UNCHANGED <<dynamicAttributes, bit_byte_create_lock, mem, frame, result, calls,
                 mem_init, last>>

\* The "with self.bit_byte_create_lock" block is left.
WbbCreateRelease(t) ==
  /\ pc[t] = "wbb_create_release"
  /\ bit_byte_create_lock' = CreateLockOnExit(t)
  /\ pc' = [pc EXCEPT ![t] = "wbb_lookup"]
  /\ UNCHANGED <<dynamicAttributes, bit_byte_locks, lock_owner, lock_made_for, mem,
                 frame, result, calls, mem_init, last>>

\* Line 280: "lock = self.bit_byte_locks[offset]".
WbbLookup(t) ==
  /\ pc[t] = "wbb_lookup"
  /\ frame' = [frame EXCEPT ![t].lock = bit_byte_locks[LockKey(frame[t].parts)]]
  /\ pc' = [pc EXCEPT ![t] = "wbb_acquire"]
  /\ UNCHANGED <<dynamicAttributes, bit_byte_locks, bit_byte_create_lock, lock_owner,
                 lock_made_for, mem, result, calls, mem_init, last>>

\* Line 281: "with lock" is entered; the thread waits while the lock is held.
WbbAcquire(t) ==
  /\ pc[t] = "wbb_acquire"
  /\ lock_owner[frame[t].lock] = NoThread
  /\ lock_owner' = [lock_owner EXCEPT ![frame[t].lock] = t]
  /\ pc' = [pc EXCEPT ![t] = "wbb_read"]
  /\ UNCHANGED <<dynamicAttributes, bit_byte_locks, bit_byte_create_lock,
                 lock_made_for, mem, frame, result, calls, mem_init, last>>

\* A read that is issued again when it raised.
AfterReadRaisedRetry(t) == "wbb_read"

\* Where thread t continues when the read of line 282 raised: nothing in
\* write_boolean_bit, publish or write_dynamic_attr catches the exception,
\* so it leaves the "with lock" block.
AfterReadRaised(t) == "wbb_exit"

\* Line 282: the byte is read; a failure leaves the with block.
WbbRead(t) ==
  /\ pc[t] = "wbb_read"
  /\ LET p == frame[t].parts
     IN \/ /\ CanSucceed(p, 1)
           /\ frame' = [frame EXCEPT ![t].reads = @ + 1, ![t].size = 1,
                ![t].data = read_data_from_area_offset_size(mem, p.area, p.subarea, p.offset, 1)]
           /\ pc' = [pc EXCEPT ![t] = "wbb_write"]
        \/ /\ CanFail(p, 1)
           /\ frame' = [frame EXCEPT ![t].reads = @ + 1, ![t].size = 1,
                                      ![t].raised = TRUE, ![t].cause = "accessor"]
           /\ pc' = [pc EXCEPT ![t] = AfterReadRaised(t)]
  /\ UNCHANGED <<dynamicAttributes, bit_byte_locks, bit_byte_create_lock, lock_owner,
                 lock_made_for, mem, result, calls, mem_init, last>>

\* The bit set in a fresh zeroed byte instead of the byte read (the encoding
\* of variable_to_bytedata for a Boolean, which overrides the full byte).
ModifiedByteOverwrite(data, bit_index, value) == set_bool(0, bit_index, PyBool(value))

\* The byte write_boolean_bit writes back (line 283), or raised.
ModifiedByte(data, bit_index, value) == set_bool(data[1], bit_index, PyBool(value))

\* Lines 283-284: the bit is set in the bytes read and the byte written back.
WbbWrite(t) ==
  /\ pc[t] = "wbb_write"
  /\ LET p == frame[t].parts
         new == ModifiedByte(frame[t].data, p.suboffset, frame[t].value)
     IN IF new.raised
        THEN /\ frame' = [frame EXCEPT ![t].raised = TRUE, ![t].cause = "value"]
             /\ UNCHANGED mem
        ELSE \/ /\ CanSucceed(p, 1)
                /\ mem' = write_data_to_area_offset_size(mem, p.area, p.subarea,
                                                         p.offset, <<new.byte>>)
                /\ frame' = [frame EXCEPT ![t].writes = @ + 1, ![t].data = <<new.byte>>]
             \/ /\ CanFail(p, 1)
                /\ mem' = mem
                /\ frame' = [frame EXCEPT ![t].writes = @ + 1, ![t].raised = TRUE,
                                           ![t].cause = "accessor"]
  /\ pc' = [pc EXCEPT ![t] = "wbb_exit"]
  /\ UNCHANGED <<dynamicAttributes, bit_byte_locks, bit_byte_create_lock, lock_owner,
                 lock_made_for, result, calls, mem_init, last>>

\* The "with lock" block is left and the request returns, or raises what the
\* block raised.
WbbExit(t) ==
  /\ pc[t] = "wbb_exit"
  /\ lock_owner' = [lock_owner EXCEPT ![frame[t].lock] = LockOnExit(t, frame[t].raised)]
  /\ Return(t, frame[t], frame[t].raised)
  /\ UNCHANGED <<dynamicAttributes, bit_byte_locks, bit_byte_create_lock,
                 lock_made_for, mem, calls, mem_init, last>>

\* A read that also stores the value read in the registry entry.
CacheAfterReadUpdated(binding, value) == [binding EXCEPT !.value = value]

\* The registry entry after a read returned value: read_dynamic_attr hands
\* the value to attr.set_value (line 250) and leaves the entry alone.
CacheAfterRead(binding, value) == binding

\* read_dynamic_attr: the bytes of the attribute are read and decoded, and the
\* value handed to the host (attr.set_value).
ReadDynamicAttr(t, name) ==
  /\ pc[t] = "idle"
  /\ name \in Registered
  /\ LET b == dynamicAttributes[name]
         p == b.register_parts
         customLength == CustomLength(b.variableType, p.suboffset)
         size == bytes_per_variable_type(b.variableType, customLength + 2)
         f == [NoFrame EXCEPT !.op = "read_dynamic_attr", !.name = name,
                              !.parts = p, !.type = b.variableType]
         g == [f EXCEPT !.reads = 1, !.size = size.n]
         data == read_data_from_area_offset_size(mem, p.area, p.subarea, p.offset, size.n)
         dec == bytedata_to_variable(data, b.variableType, p.suboffset)
     IN IF size.none
        THEN /\ Return(t, [f EXCEPT !.cause = "value"], TRUE)
             /\ UNCHANGED dynamicAttributes
        ELSE \/ /\ CanSucceed(p, size.n)
                /\ dec.raised
                /\ Return(t, [g EXCEPT !.data = data, !.cause = "decode"], TRUE)
                /\ UNCHANGED dynamicAttributes
             \/ /\ CanSucceed(p, size.n)
                /\ ~dec.raised
                /\ Return(t, [g EXCEPT !.data = data, !.value = dec.value], FALSE)
                /\ dynamicAttributes' =
                     [dynamicAttributes EXCEPT ![name] = CacheAfterRead(@, dec.value)]
             \/ /\ CanFail(p, size.n)
                /\ Return(t, [g EXCEPT !.cause = "accessor"], TRUE)
                /\ UNCHANGED dynamicAttributes
  /\ calls' = calls + 1
  /\ last' = NoLast
  /\ UNCHANGED <<bit_byte_locks, bit_byte_create_lock, lock_owner,
                 lock_made_for, mem, mem_init>>

\* The add_dynamic_attribute command (write type and properties left at their
\* defaults): nothing is registered when the topic is empty, or when the type
\* name or the register is refused.
AddDynamicAttribute(register, topic, variable_type_name) ==
  /\ LET vt == stringValueToVarType(variable_type_name)
         rp == get_register_parts(register)
     IN IF topic = ""
        THEN /\ last' = [register |-> register, stage |-> "no_topic"]
             /\ UNCHANGED dynamicAttributes
        ELSE IF vt.raised
        THEN /\ last' = [register |-> register, stage |-> "type"]
             /\ UNCHANGED dynamicAttributes
        ELSE IF rp.raised
        THEN /\ last' = [register |-> register, stage |-> "parse"]
             /\ UNCHANGED dynamicAttributes
        ELSE /\ last' = [register |-> register, stage |-> "added"]
             /\ dynamicAttributes' =
                  DictSet(dynamicAttributes, topic, Binding(vt.type, register, rp.parts))
  /\ UNCHANGED <<bit_byte_locks, bit_byte_create_lock, lock_owner, lock_made_for,
                 mem, pc, frame, result, calls, mem_init>>

\* One step of the request thread t is running.
Step(t) ==
  \/ Publish(t)
  \/ PublishWrite(t)
  \/ WbbCheck(t)
  \/ WbbCreateAcquire(t)
  \/ WbbCreateStore(t)
  \/ WbbCreateRelease(t)
  \/ WbbLookup(t)
  \/ WbbAcquire(t)
  \/ WbbRead(t)
  \/ WbbWrite(t)
  \/ WbbExit(t)


(***************************************************************************)
(* The device server with concurrent requests.                             *)
(***************************************************************************)
\* The init_dynamic_attributes property of the device: three bits, two of
\* them in one byte and two at the same offset of different data blocks, and
\* a 32-bit integer.
InitAttributes ==
  << <<"b0", <<"D", "B", "1", ".", "5", ".", "0">>, "DevBoolean">>,
     <<"b1", <<"D", "B", "1", ".", "5", ".", "1">>, "DevBoolean">>,
     <<"c0", <<"D", "B", "2", ".", "5", ".", "0">>, "DevBoolean">>,
     <<"n0", <<"D", "B", "2", ".", "0">>, "DevLong">> >>

\* The values the host framework hands to a write of an attribute of a type.
HostValues(variableType) ==
  IF variableType = "DevBoolean" THEN {PyBoolV(TRUE), PyBoolV(FALSE)}
  ELSE {PyIntV(2)}

\* bit 0 clear, bit 1 set: a set and a clear are both visible.
InitBytes == {170}

UniformMemories(bytes) == {[c \in Cells |-> v] : v \in bytes}

InitDevice(attributes, memories) ==
  /\ dynamicAttributes = InitRegistry(attributes)
  /\ bit_byte_locks = <<>>
  /\ bit_byte_create_lock = NoThread
  /\ lock_owner = <<>>
  /\ lock_made_for = <<>>
  /\ mem \in memories
  /\ mem_init = mem
  /\ pc = [t \in Threads |-> "idle"]
  /\ frame = [t \in Threads |-> NoFrame]
  /\ result = [t \in Threads |-> NoFrame]
  /\ calls = 0
  /\ last = NoLast

Init == InitDevice(InitAttributes, UniformMemories(InitBytes))

Next ==
  \E t \in Threads :
    \/ /\ calls < MaxCalls
       /\ \E name \in Registered :
            \E raw \in HostValues(dynamicAttributes[name].variableType) :
              WriteDynamicAttr(t, name, raw)
    \/ /\ calls < MaxCalls
       /\ \E name \in Registered : PublishCommand(t, name)
    \/ Step(t)

Spec == Init /\ [][Next]_vars


(***************************************************************************)
(* Properties of write_boolean_bit under concurrent requests.              *)
(***************************************************************************)
\* Thread t holds the lock it took at line 281 (it is inside "with lock").
InWithLock(t) == pc[t] \in {"wbb_read", "wbb_write", "wbb_exit"}

\* Thread t is in the read-modify-write section: about to read, or between
\* the read and the write.
InRMW(t) == pc[t] \in {"wbb_read", "wbb_write"}

ByteOf(parts) == CellOf(parts.area, parts.subarea, parts.offset)

\* C1: at most one thread at a time is in the read-modify-write section of
\* write_boolean_bit for the same byte.
C1_MutualExclusion ==
  \A t1, t2 \in Threads :
    (t1 # t2 /\ InRMW(t1) /\ InRMW(t2))
      => ByteOf(frame[t1].parts) # ByteOf(frame[t2].parts)

\* The threads whose request has returned.
Returned == {t \in Threads : result[t].done}

\* C2: when every request made was a bit write, all of them to different bits
\* of one byte, and all have completed, every bit of that byte has the value
\* its writer gave it and the other bits have their initial value.
C2_NoLostUpdate ==
  LET D == Returned
  IN (/\ \A t \in Threads : pc[t] = "idle"
      /\ calls = Cardinality(D)
      /\ \A t \in D : /\ ~result[t].raised
                      /\ dynamicAttributes[result[t].name].variableType = "DevBoolean"
      /\ \A t1, t2 \in D :
           /\ ByteOf(result[t1].parts) = ByteOf(result[t2].parts)
           /\ t1 # t2 => result[t1].parts.suboffset # result[t2].parts.suboffset)
     => \A t \in D : \A i \in 0..7 :
          get_bool(mem[ByteOf(result[t].parts)], i) =
            IF \E w \in D : result[w].parts.suboffset = i
            THEN PyBool(result[CHOOSE w \in D : result[w].parts.suboffset = i].value)
            ELSE get_bool(mem_init[ByteOf(result[t].parts)], i)

\* C3: an entry of bit_byte_locks, once made, is never replaced by another
\* lock object.
C3_LockCreatedOnce ==
  [][\A k \in DOMAIN bit_byte_locks :
       /\ k \in DOMAIN bit_byte_locks'
       /\ bit_byte_locks'[k] = bit_byte_locks[k]]_vars

\* C4: a lock is held only by a thread inside the "with lock" block of the
\* request it is running: a request that has returned or raised holds no
\* lock, so every lock is free once its holder's request is over.
C4_LockReleasedOnFailure ==
  \A l \in 1..Len(lock_owner) :
    lock_owner[l] # NoThread
      => InWithLock(lock_owner[l]) /\ frame[lock_owner[l]].lock = l

\* A bit write raised inside the with block (its read was issued), and another
\* thread has since taken the same lock and written its byte.
C4_Witness ==
  \E t1, t2 \in Threads :
    /\ t1 # t2
    /\ pc[t1] = "idle" /\ result[t1].done /\ result[t1].raised /\ result[t1].reads = 1
    /\ pc[t2] = "wbb_exit" /\ ~frame[t2].raised /\ frame[t2].writes = 1
    /\ frame[t2].lock = result[t1].lock
    /\ frame[t2].parts.offset = result[t1].parts.offset

\* C5 as stated: a thread never waits for a lock held by a bit write to the
\* same numeric offset of another area or data block.
C5_NoCrossAreaBlocking ==
  \A t1, t2 \in Threads :
    ~ (/\ InWithLock(t1)
       /\ pc[t2] = "wbb_acquire"
       /\ frame[t2].lock = frame[t1].lock
       /\ frame[t1].parts.offset = frame[t2].parts.offset
       /\ ByteOf(frame[t1].parts) # ByteOf(frame[t2].parts))

\* C5, amended: the lock is looked up by the numeric offset alone.  The lookup
\* of line 280 returns the table's lock for the offset whatever area or data
\* block that lock was made for.
C5_LockSharedPerOffset ==
  [][\A t \in Threads :
       (pc[t] = "wbb_lookup" /\ pc'[t] = "wbb_acquire")
         => \A k \in DOMAIN bit_byte_locks :
              lock_made_for[bit_byte_locks[k]].offset = frame[t].parts.offset
                => frame'[t].lock = bit_byte_locks[k]]_vars

\* A bit write to DB2 waits for the lock a bit write to the same offset of
\* DB1 holds.
C5_Witness ==
  \E t1, t2 \in Threads :
    /\ InWithLock(t1)
    /\ pc[t2] = "wbb_acquire"
    /\ frame[t2].lock = frame[t1].lock
    /\ lock_owner[frame[t1].lock] = t1
    /\ ByteOf(frame[t1].parts) # ByteOf(frame[t2].parts)


(***************************************************************************)
(* The device serving one thread: bit writes to every bit of one byte,     *)
(* whatever the byte holds.                                                *)
(***************************************************************************)
BitRegister(digit) == <<"D", "B", "1", ".", "5", ".", digit>>

SeqAttributes ==
  << <<"bit0", BitRegister("0"), "DevBoolean">>, <<"bit1", BitRegister("1"), "DevBoolean">>,
     <<"bit2", BitRegister("2"), "DevBoolean">>, <<"bit3", BitRegister("3"), "DevBoolean">>,
     <<"bit4", BitRegister("4"), "DevBoolean">>, <<"bit5", BitRegister("5"), "DevBoolean">>,
     <<"bit6", BitRegister("6"), "DevBoolean">>, <<"bit7", BitRegister("7"), "DevBoolean">>,
     <<"n0", <<"D", "B", "2", ".", "0">>, "DevLong">> >>

\* Memories whose byte DB1.5 holds any value.
SeqMemories ==
  {[c \in Cells |-> IF c = <<"DB", 1, 5>> THEN v ELSE 170] : v \in Byte}

InitSeq == InitDevice(SeqAttributes, SeqMemories)

NextSeq ==
  \/ /\ calls < MaxSeqCalls
     /\ \E name \in Registered :
          \E raw \in HostValues(dynamicAttributes[name].variableType) :
            WriteDynamicAttr(1, name, raw)
  \/ Step(1)

SpecSeq == InitSeq /\ [][NextSeq]_vars

(***************************************************************************)
(* The device serving one thread: writes of any Python value.              *)
(***************************************************************************)
ValAttributes ==
  << <<"b0", BitRegister("0"), "DevBoolean">>, <<"b1", BitRegister("1"), "DevBoolean">>,
     <<"n0", <<"D", "B", "2", ".", "0">>, "DevLong">> >>

TrueSpellings == {"true", "True", "TRUE", "1", "yes", "Yes", "YES"}
FalseSpellings == {"false", "False", "FALSE", "0", "no", "No", "NO", ""}
OtherSpellings == {"foo", "on", "2"}

RawValues ==
  {PyBoolV(TRUE), PyBoolV(FALSE)}
    \cup {PyIntV(n) : n \in {-1, 0, 1, 2}}
    \cup {PyStrV(x) : x \in TrueSpellings \cup FalseSpellings \cup OtherSpellings}

InitVal == InitDevice(ValAttributes, UniformMemories(InitBytes))

NextVal ==
  \/ /\ calls < MaxSeqCalls
     /\ \E name \in Registered : \E raw \in RawValues : WriteDynamicAttr(1, name, raw)
  \/ /\ calls < MaxSeqCalls
     /\ \E name \in Registered : \E raw \in RawValues : write_attr(1, name, raw)
  \/ Step(1)

SpecVal == InitVal /\ [][NextVal]_vars

(***************************************************************************)
(* The device registering its first attribute from any register            *)
(* descriptor, and serving it.                                             *)
(***************************************************************************)
RegChars == {"D", "B", "1", "5", ".", Newline}
RegStrings == UNION {[1..n -> RegChars] : n \in 0..MaxRegLen}
Topics == {"x", ""}
TypeNames == {"DevBoolean", "DevLong", "DevShort"}

InitParse == InitDevice(<<>>, UniformMemories(InitBytes))

NextParse ==
  \/ /\ Registered = {}
     /\ last.stage = ""
     /\ \E register \in RegStrings : \E topic \in Topics : \E type \in TypeNames :
          AddDynamicAttribute(register, topic, type)
  \/ /\ calls < MaxSeqCalls
     /\ \E name \in Registered :
          \E raw \in HostValues(dynamicAttributes[name].variableType) :
            WriteDynamicAttr(1, name, raw)
  \/ /\ calls < MaxSeqCalls
     /\ \E name \in Registered : ReadDynamicAttr(1, name)
  \/ Step(1)

SpecParse == InitParse /\ [][NextParse]_vars


(***************************************************************************)
(* Properties of a single bit write.                                       *)
(***************************************************************************)
InWriteBooleanBit(t) ==
  pc[t] \in {"wbb_check", "wbb_create_acquire", "wbb_create_store",
             "wbb_create_release", "wbb_lookup", "wbb_acquire", "wbb_read",
             "wbb_write", "wbb_exit"}

\* C6: with a single writer, no step of a bit write changes any bit of PLC
\* memory other than the target bit of the byte at the attribute's offset, and
\* the step that writes the byte back gives the target bit the written value.
C6_OnlyTargetBitChanges ==
  [][\A t \in Threads :
       InWriteBooleanBit(t) =>
         /\ \A c \in Cells : \A i \in 0..7 :
              (c # ByteOf(frame[t].parts) \/ i # frame[t].parts.suboffset)
                => get_bool(mem'[c], i) = get_bool(mem[c], i)
         /\ (pc[t] = "wbb_write" /\ frame'[t].writes = 1 /\ ~frame'[t].raised)
              => get_bool(mem'[ByteOf(frame[t].parts)], frame[t].parts.suboffset)
                   = PyBool(frame[t].value)]_vars

\* Bit 7 of a byte holding 255 was cleared: the byte holds 127.
C6_Witness ==
  \E t \in Threads :
    /\ pc[t] = "wbb_exit" /\ ~frame[t].raised /\ frame[t].writes = 1
    /\ frame[t].parts.suboffset = 7
    /\ mem_init[ByteOf(frame[t].parts)] = 255
    /\ mem[ByteOf(frame[t].parts)] = 127

\* The request of thread t that returned was a completed write of a Boolean
\* attribute.
CompletedBooleanWrite(t) ==
  /\ pc[t] = "idle"
  /\ result[t].done
  /\ result[t].op \in {"write_dynamic_attr", "write_attr"}
  /\ dynamicAttributes[result[t].name].variableType = "DevBoolean"

\* The target bit of the last request of thread t, as PLC memory holds it.
TargetBit(t) == get_bool(mem[ByteOf(result[t].parts)], result[t].parts.suboffset)

IsTrueInput(raw) ==
  \/ raw = PyBoolV(TRUE)
  \/ raw.k = "int" /\ raw.n # 0
  \/ raw.k = "str" /\ raw.s \in TrueSpellings

IsFalseInput(raw) ==
  \/ raw = PyBoolV(FALSE)
  \/ raw.k = "int" /\ raw.n = 0
  \/ raw.k = "str" /\ raw.s \in FalseSpellings

\* C7: a Boolean write that completed has set the target bit when its input
\* was True, a non-zero number or a spelling of true, and cleared it when its
\* input was False, zero, a spelling of false or the empty string.
C7_BooleanInputNormalized ==
  \A t \in Threads :
    (CompletedBooleanWrite(t) /\ ~result[t].raised)
      => /\ IsTrueInput(result[t].raw) => TargetBit(t)
         /\ IsFalseInput(result[t].raw) => ~TargetBit(t)

\* C8: a Boolean write of a string that is no spelling of true or false is not
\* refused for its value, and when it completes the target bit is clear.
C8_UnrecognizedStringClears ==
  \A t \in Threads :
    (/\ CompletedBooleanWrite(t)
     /\ result[t].raw.k = "str"
     /\ result[t].raw.s \notin TrueSpellings \cup FalseSpellings)
      => /\ result[t].cause # "value"
         /\ ~result[t].raised => ~TargetBit(t)

(***************************************************************************)
(* Properties of register parsing and registration.                        *)
(***************************************************************************)
AllIn(s, from, to, class) == \A i \in from..to : s[i] \in class

\* The value of the decimal numeral s[from..to], 0 when it is empty.
RECURSIVE Pow10(_)
Pow10(n) == IF n = 0 THEN 1 ELSE 10 * Pow10(n - 1)

RECURSIVE DecimalValue(_, _, _)
DecimalValue(s, from, to) ==
  IF from > to THEN 0
  ELSE DigitVal(s[from]) * Pow10(to - from) + DecimalValue(s, from + 1, to)

\* s is letters s[1..a], digits s[a+1..b], ".", digits s[b+2..c] and, when
\* c < Len(s), "." and digits s[c+2..Len(s)].
HasForm(s, a, b, c) ==
  /\ 1 <= a /\ a <= b /\ b + 2 <= c /\ c <= Len(s)
  /\ AllIn(s, 1, a, Letters)
  /\ AllIn(s, a + 1, b, Digits)
  /\ s[b + 1] = "."
  /\ AllIn(s, b + 2, c, Digits)
  /\ \/ c = Len(s)
     \/ c + 2 <= Len(s) /\ s[c + 1] = "." /\ AllIn(s, c + 2, Len(s), Digits)

Splits(s) == {x \in (1..Len(s)) \X (1..Len(s)) \X (1..Len(s)) : HasForm(s, x[1], x[2], x[3])}

WellFormed(s) == Splits(s) # {}

\* The address a well-formed descriptor denotes.
Denoted(s) ==
  LET x == CHOOSE y \in Splits(s) : TRUE
  IN [area |-> SubSeq(s, 1, x[1]),
      subarea |-> DecimalValue(s, x[1] + 1, x[2]),
      offset |-> DecimalValue(s, x[2] + 2, x[3]),
      suboffset |-> IF x[3] = Len(s) THEN 0 ELSE DecimalValue(s, x[3] + 2, Len(s))]

\* The last command reached the parser (its topic and type name were accepted).
Parsed == last.stage \in {"parse", "added"}

\* C9: get_register_parts succeeds exactly on the descriptors of the form
\* letters, optional digits, ".", digits and an optional "." plus digits, and
\* then returns the address the descriptor denotes.
C9_ParseGrammar ==
  Parsed =>
    /\ last.stage = "added" <=> WellFormed(last.register)
    /\ last.stage = "added" =>
         \A name \in Registered :
           dynamicAttributes[name].register_parts = Denoted(last.register)

\* C10 as stated: no binding whose area the accessors do not support is ever
\* registered.
C10_UnsupportedAreaRejected ==
  \A name \in Registered :
    AreaKind(dynamicAttributes[name].register_parts.area) # "none"

\* C10, amended: the parser accepts every well-formed descriptor whatever its
\* letters and the binding is registered with those letters as its area; a
\* read or write of a binding whose area is unsupported raises at the accessor
\* and leaves PLC memory as it was.
C10_UnsupportedAreaFailsOnAccess ==
  /\ (Parsed /\ WellFormed(last.register)) =>
       /\ last.stage = "added"
       /\ \A name \in Registered :
            dynamicAttributes[name].register_parts.area = Denoted(last.register).area
  /\ \A t \in Threads :
       (result[t].done /\ AreaKind(result[t].parts.area) = "none")
         => result[t].raised /\ result[t].cause = "accessor" /\ mem = mem_init

\* A write of a registered attribute whose area is "D" raised at the accessor.
C10_Witness ==
  \E t \in Threads :
    /\ result[t].done /\ result[t].raised /\ result[t].cause = "accessor"
    /\ result[t].op = "write_dynamic_attr"
    /\ result[t].parts.area = <<"D">>
    /\ result[t].name \in Registered


(***************************************************************************)
(* Properties of the dispatch of publish and of the lock table.            *)
(***************************************************************************)
WriteOps == {"write_dynamic_attr", "write_attr", "publish"}

\* C19: publish writes a Boolean attribute by write_boolean_bit only, with one
\* 1-byte accessor read and then at most one 1-byte accessor write (exactly
\* one when the request succeeds), both while the thread holds the lock it
\* took for the offset; it writes any other attribute with no accessor read,
\* no lock, and one accessor write unless the encoding raised.
C19_PublishDispatch ==
  \A t \in Threads :
    /\ pc[t] = "publish_write" =>
         /\ frame[t].type # "DevBoolean"
         /\ frame[t].reads = 0 /\ frame[t].writes = 0 /\ frame[t].lock = 0
    /\ InWriteBooleanBit(t) => frame[t].type = "DevBoolean"
    /\ pc[t] \in {"wbb_read", "wbb_write"} => lock_owner[frame[t].lock] = t
    /\ pc[t] = "wbb_write" =>
         frame[t].reads = 1 /\ frame[t].writes = 0 /\ Len(frame[t].data) = 1
    /\ (result[t].done /\ result[t].op \in WriteOps) =>
         IF result[t].type = "DevBoolean"
         THEN /\ result[t].reads = 1 /\ result[t].size = 1 /\ result[t].lock # 0
              /\ result[t].writes \in {0, 1}
              /\ ~result[t].raised => result[t].writes = 1
         ELSE /\ result[t].reads = 0 /\ result[t].lock = 0
              /\ result[t].writes \in {0, 1}
              /\ ~result[t].raised => result[t].writes = 1
              /\ result[t].writes = 0 => result[t].cause = "value"

\* One thread completed a bit write and the other a write of the integer.
C19_Witness ==
  \E t1, t2 \in Threads :
    /\ result[t1].done /\ ~result[t1].raised /\ result[t1].type = "DevBoolean"
    /\ result[t1].reads = 1 /\ result[t1].writes = 1
    /\ result[t2].done /\ ~result[t2].raised /\ result[t2].type = "DevLong"
    /\ result[t2].reads = 0 /\ result[t2].writes = 1

\* C20: no step removes a key of bit_byte_locks, and every step that changes
\* the table is the store of a thread that holds bit_byte_create_lock.
C20_LockTableGrows ==
  [][/\ DOMAIN bit_byte_locks \subseteq DOMAIN bit_byte_locks'
     /\ bit_byte_locks' # bit_byte_locks =>
          \E t \in Threads :
            /\ bit_byte_create_lock = t
            /\ pc[t] = "wbb_create_store" /\ pc'[t] = "wbb_create_release"]_vars

\* A thread has just inserted offset 5 and still holds the creation lock.
C20_Witness ==
  \E t \in Threads :
    /\ pc[t] = "wbb_create_release"
    /\ bit_byte_create_lock = t
    /\ 5 \in DOMAIN bit_byte_locks


(***************************************************************************)
(* The device serving one thread that writes, publishes and reads          *)
(* attributes of every type: two integers, one of them overlapping a       *)
(* string of declared length 3, a bit in the last byte of that integer,    *)
(* and two attributes registered with lower-case area letters.             *)
(***************************************************************************)
RWAttributes ==
  << <<"n0", <<"D", "B", "2", ".", "0">>, "DevLong">>,
     <<"n1", <<"D", "B", "1", ".", "2">>, "DevLong">>,
     <<"s3", <<"D", "B", "1", ".", "0", ".", "3">>, "DevString">>,
     <<"b0", BitRegister("0"), "DevBoolean">>,
     <<"lo", <<"d", "b", "2", ".", "0">>, "DevLong">>,
     <<"eb", <<"e", ".", "1", ".", "0">>, "DevBoolean">> >>

RWValues(variableType) ==
  CASE variableType = "DevBoolean" -> {PyBoolV(TRUE), PyBoolV(FALSE)}
    [] variableType = "DevLong" -> {PyIntV(2), PyIntV(-1)}
    [] variableType = "DevString" -> {PyStrV(x) : x \in Texts}

InitRW == InitDevice(RWAttributes, UniformMemories({0}))

NextRW ==
  \/ /\ calls < MaxRWCalls
     /\ \E name \in Registered :
          \E raw \in RWValues(dynamicAttributes[name].variableType) :
            WriteDynamicAttr(1, name, raw)
  \/ /\ calls < MaxRWCalls
     /\ \E name \in Registered : PublishCommand(1, name)
  \/ /\ calls < MaxRWCalls
     /\ \E name \in Registered : ReadDynamicAttr(1, name)
  \/ Step(1)

SpecRW == InitRW /\ [][NextRW]_vars


(***************************************************************************)
(* Properties of reads and writes in sequence.                             *)
(***************************************************************************)
UpperChar(c) ==
  CASE c = "a" -> "A" [] c = "b" -> "B" [] c = "d" -> "D" [] c = "e" -> "E"
    [] c = "i" -> "I" [] c = "q" -> "Q" [] OTHER -> c

Upper(area) == [i \in 1..Len(area) |-> UpperChar(area[i])]

\* C11: a request on an attribute whose area letters, in upper case, name a
\* supported area addresses the memory area of the upper-case spelling, and
\* so is not refused as an unsupported area.
C11_AreaCaseInsensitive ==
  \A t \in Threads :
    (result[t].done /\ AreaKind(Upper(result[t].parts.area)) # "none")
      => /\ AreaKind(result[t].parts.area) = AreaKind(Upper(result[t].parts.area))
         /\ result[t].raised =>
              ~(result[t].cause = "accessor" /\ AreaKind(result[t].parts.area) = "none")

\* The cached value of the attribute of the last request of thread t.
Cached(t) == dynamicAttributes[result[t].name].value

\* C12 as stated: once a request has returned, the cached value is the value
\* written by a successful write and the value read by a successful read, and
\* a first write that failed has left the cached value at its initial 0.
C12_CacheFollowsCompletion ==
  \A t \in Threads :
    (pc[t] = "idle" /\ result[t].done) =>
      /\ (result[t].op = "write_dynamic_attr" /\ ~result[t].raised)
           => Cached(t) = result[t].raw
      /\ (result[t].op = "read_dynamic_attr" /\ ~result[t].raised)
           => Cached(t) = result[t].value
      /\ (result[t].op = "write_dynamic_attr" /\ result[t].raised /\ calls = 1)
           => Cached(t) = PyIntV(0)

\* Thread t starts a write_dynamic_attr request for name in this step.
StartsWrite(t, name) ==
  /\ pc[t] = "idle" /\ pc'[t] = "publish"
  /\ frame'[t].op = "write_dynamic_attr" /\ frame'[t].name = name

\* C12, amended: the cached value is set when a write request starts, to the
\* string form of the written value, and nothing else changes it: it is that
\* string when the write returns, whether the write succeeded or failed, and
\* no read and no publish changes it.
C12_CacheSetOnWriteRequest ==
  [][\A name \in Registered :
       /\ \A t \in Threads :
            StartsWrite(t, name) =>
              dynamicAttributes'[name].value = PyStr(frame'[t].raw)
       /\ dynamicAttributes'[name].value # dynamicAttributes[name].value
            => \E t \in Threads : StartsWrite(t, name)
       /\ \A t \in Threads :
            (/\ pc[t] # "idle" /\ pc'[t] = "idle"
             /\ result'[t].op = "write_dynamic_attr" /\ result'[t].name = name)
              => dynamicAttributes'[name].value = PyStr(result'[t].raw)]_vars

\* A write of "abcd" to the string of length 3 failed in the encoding, PLC
\* memory is as it was, and the cached value is "abcd".
C12_Witness ==
  \E t \in Threads :
    /\ pc[t] = "idle" /\ result[t].done /\ result[t].raised
    /\ result[t].op = "write_dynamic_attr" /\ result[t].name = "s3"
    /\ result[t].cause = "value"
    /\ Cached(t) = PyStrV("abcd")
    /\ mem = mem_init

PureCall(t, f, raised) ==
  /\ pc[t] = "idle"
  /\ Return(t, f, raised)
  /\ calls' = calls + 1
  /\ last' = NoLast
  /\ UNCHANGED <<dynamicAttributes, bit_byte_locks, bit_byte_create_lock, lock_owner,
                 lock_made_for, mem, mem_init>>

CallFrame(op, variableType, suboffset) ==
  [NoFrame EXCEPT !.op = op, !.type = variableType,
                  !.parts = [NoParts EXCEPT !.suboffset = suboffset]]

BytesPerVariableType(t, variableType, customLength) ==
  LET r == bytes_per_variable_type(variableType, customLength)
  IN PureCall(t, [CallFrame("bytes_per_variable_type", variableType, customLength)
                    EXCEPT !.size = r.n, !.none = r.none], FALSE)

VariableToBytedata(t, variable, variableType, suboffset) ==
  LET enc == variable_to_bytedata(variable, variableType, suboffset)
      f == [CallFrame("variable_to_bytedata", variableType, suboffset)
              EXCEPT !.raw = variable, !.value = variable]
  IN IF enc.raised THEN PureCall(t, [f EXCEPT !.cause = "value"], TRUE)
     ELSE PureCall(t, [f EXCEPT !.data = enc.data, !.size = Len(enc.data)], FALSE)

BytedataToVariable(t, data, variableType, suboffset) ==
  LET dec == bytedata_to_variable(data, variableType, suboffset)
      f == [CallFrame("bytedata_to_variable", variableType, suboffset)
              EXCEPT !.data = data]
  IN IF dec.raised THEN PureCall(t, [f EXCEPT !.cause = "decode"], TRUE)
     ELSE PureCall(t, [f EXCEPT !.value = dec.value], FALSE)

\* variable_to_bytedata, then bytedata_to_variable on its result (a String is
\* decoded with the default suboffset).
RoundTrip(t, variable, variableType, suboffset) ==
  LET enc == variable_to_bytedata(variable, variableType, suboffset)
      dec == bytedata_to_variable(enc.data, variableType,
                                  IF variableType = "DevString" THEN 0 ELSE suboffset)
      f == [CallFrame("round_trip", variableType, suboffset) EXCEPT !.raw = variable]
  IN IF enc.raised THEN PureCall(t, [f EXCEPT !.cause = "value"], TRUE)
     ELSE IF dec.raised THEN PureCall(t, [f EXCEPT !.data = enc.data, !.cause = "decode"], TRUE)
     ELSE PureCall(t, [f EXCEPT !.data = enc.data, !.value = dec.value], FALSE)

MinDInt == (0 - 2147483647) - 1
MaxDInt == 2147483647

CodecTypes == {"DevBoolean", "DevLong", "DevString", "DevFloat", "DevDouble", "DevShort"}
BitIndexes == -1..8
StringQualifiers == {0, 1, 2, 3, 4}

\* The arguments of an encoding: <<variable, suboffset>>.
CodecInputs(variableType) ==
  CASE variableType = "DevBoolean" -> {PyBoolV(TRUE), PyBoolV(FALSE)} \X BitIndexes
    [] variableType = "DevLong" ->
         {PyIntV(n) : n \in {MinDInt, -9999, -1, 0, 1, 123456, MaxDInt}} \X {0}
    [] variableType = "DevString" -> {PyStrV(x) : x \in Texts} \X StringQualifiers
    [] OTHER -> {<<PyIntV(1), 0>>}

\* The arguments of a decoding: <<data, suboffset>>.
DecodeInputs(variableType) ==
  CASE variableType = "DevBoolean" -> {<<b>> : b \in Byte} \X BitIndexes
    [] variableType = "DevLong" ->
         {<<0, 0, 0, 2>>, <<255, 255, 255, 255>>, <<128, 0, 0, 0>>, <<127, 255, 255, 255>>} \X {0}
    [] variableType = "DevString" ->
         {<<3, 1, 97, 0, 0>>, <<3, 0, 0, 0, 0>>, <<3, 4, 97, 98, 99>>, <<255, 1, 97>>} \X {0}
    [] OTHER -> {<<(<<0>>), 0>>}

CodecAttributes ==
  << <<"s3", <<"D", "B", "1", ".", "0", ".", "3">>, "DevString">>,
     <<"sd", <<"D", "B", "1", ".", "0">>, "DevString">>,
     <<"b7", BitRegister("7"), "DevBoolean">>,
     <<"b8", BitRegister("8"), "DevBoolean">>,
     <<"n0", <<"D", "B", "2", ".", "0">>, "DevLong">> >>

\* Memories whose byte DB1.5 has no bit, every other bit or every bit set.
CodecMemories ==
  {[c \in Cells |-> IF c = <<"DB", 1, 5>> THEN v ELSE 0] : v \in {0, 170, 255}}

InitCodec == InitDevice(CodecAttributes, CodecMemories)

NextCodec ==
  \/ /\ calls < MaxSeqCalls
     /\ \E type \in CodecTypes : \E n \in {0, 2, 5, 256} : BytesPerVariableType(1, type, n)
  \/ /\ calls < MaxSeqCalls
     /\ \E type \in CodecTypes \ {"DevFloat", "DevDouble"} :
          \E x \in CodecInputs(type) : VariableToBytedata(1, x[1], type, x[2])
  \/ /\ calls < MaxSeqCalls
     /\ \E type \in CodecTypes \ {"DevFloat", "DevDouble"} :
          \E x \in DecodeInputs(type) : BytedataToVariable(1, x[1], type, x[2])
  \/ /\ calls < MaxSeqCalls
     /\ \E type \in CodecTypes \ {"DevFloat", "DevDouble"} :
          \E x \in CodecInputs(type) : RoundTrip(1, x[1], type, x[2])
  \/ /\ calls < MaxSeqCalls
     /\ \E name \in Registered :
          \E raw \in RWValues(dynamicAttributes[name].variableType) :
            WriteDynamicAttr(1, name, raw)
  \/ /\ calls < MaxSeqCalls
     /\ \E name \in Registered : ReadDynamicAttr(1, name)
  \/ Step(1)

SpecCodec == InitCodec /\ [][NextCodec]_vars


(***************************************************************************)
(* Properties of the value codec.                                          *)
(***************************************************************************)
\* The number of bytes of the UTF-8 encoding of a character / of a str.
Utf8CharLen(code) == IF code < 128 THEN 1 ELSE IF code < 2048 THEN 2 ELSE 3

RECURSIVE Utf8CodesLen(_)
Utf8CodesLen(codes) ==
  IF Len(codes) = 0 THEN 0
  ELSE Utf8CharLen(Head(codes)) + Utf8CodesLen(Tail(codes))

Utf8Len(s) == Utf8CodesLen(TextCodes(s))

\* The declared maximum of a String with the given qualifier.
DeclaredMax(qualifier) == IF qualifier = 0 THEN 254 ELSE qualifier

\* The request or call of thread t that returned encoded a str as a String.
EncodedString(t) ==
  /\ result[t].done
  /\ result[t].type = "DevString"
  /\ result[t].op \in {"variable_to_bytedata", "write_dynamic_attr"}
  /\ result[t].raw.k = "str"

\* C13: encoding a str whose UTF-8 length exceeds the declared maximum fails,
\* as a write it issues no accessor write and leaves PLC memory unchanged, and
\* encoding a str whose UTF-8 length equals the maximum does not fail.
C13_StringTooLongFails ==
  \A t \in Threads :
    EncodedString(t) =>
      LET max == DeclaredMax(result[t].parts.suboffset)
          n == Utf8Len(result[t].raw.s)
      IN /\ n > max =>
              /\ result[t].raised /\ result[t].cause = "value"
              /\ result[t].writes = 0
              /\ mem = mem_init
         /\ n = max => ~(result[t].raised /\ result[t].cause = "value")

\* C14: encoding and decoding a Boolean raise exactly when the bit index is
\* outside 0..7, and a bit write or bit read of an attribute whose qualifier
\* is 8 or more raises and leaves PLC memory unchanged.
C14_BitIndexRange ==
  \A t \in Threads :
    (result[t].done /\ result[t].type = "DevBoolean") =>
      /\ result[t].op \in {"variable_to_bytedata", "bytedata_to_variable"}
           => (result[t].raised <=> result[t].parts.suboffset \notin 0..7)
      /\ (/\ result[t].op \in {"write_dynamic_attr", "read_dynamic_attr"}
          /\ result[t].parts.suboffset >= 8)
           => result[t].raised /\ mem = mem_init

\* The value is one the type can hold: any 32-bit integer, a bool at a bit
\* index 0..7, a str whose UTF-8 length is within the declared maximum.
InCodecRange(variable, variableType, suboffset) ==
  CASE variableType = "DevLong" ->
         variable.k = "int" /\ variable.n >= MinDInt /\ variable.n <= MaxDInt
    [] variableType = "DevBoolean" -> variable.k = "bool" /\ suboffset \in 0..7
    [] variableType = "DevString" ->
         variable.k = "str" /\ Utf8Len(variable.s) <= DeclaredMax(suboffset)
    [] OTHER -> FALSE

\* C15: bytedata_to_variable(variable_to_bytedata(v)) returns v for every v
\* the type can hold.
C15_RoundTrip ==
  \A t \in Threads :
    (/\ result[t].done /\ result[t].op = "round_trip"
     /\ InCodecRange(result[t].raw, result[t].type, result[t].parts.suboffset))
      => ~result[t].raised /\ result[t].value = result[t].raw

\* C17: bytes_per_variable_type raises for every type other than Boolean,
\* Int32, Float32, Float64 and String, and returns None for none.
C17_WidthLookupFails ==
  \A t \in Threads :
    (result[t].done /\ result[t].op = "bytes_per_variable_type") =>
      /\ ~result[t].none
      /\ result[t].type \notin {"DevBoolean", "DevLong", "DevFloat", "DevDouble", "DevString"}
           => result[t].raised

\* The buffer holds a String of declared maximum max and value s.
StringLayout(data, max, s) ==
  /\ Len(data) = max + 2
  /\ data[1] = max
  /\ data[2] = Utf8Len(s)

\* C18: the buffer publish writes for a String and the buffer an encoding
\* returns have the declared maximum L plus 2 bytes, byte 0 holding L and
\* byte 1 the UTF-8 length of the value, and a read asks for L + 2 bytes.
C18_StringBufferLayout ==
  \A t \in Threads :
    /\ (pc[t] = "publish_write" /\ frame[t].type = "DevString") =>
         StringLayout(frame[t].data, DeclaredMax(frame[t].parts.suboffset),
                      frame[t].value.s)
    /\ (/\ result[t].done /\ ~result[t].raised /\ result[t].type = "DevString"
        /\ result[t].op = "variable_to_bytedata") =>
         StringLayout(result[t].data, DeclaredMax(result[t].parts.suboffset),
                      result[t].raw.s)
    /\ (/\ result[t].done /\ result[t].type = "DevString"
        /\ result[t].op = "read_dynamic_attr") =>
         result[t].size = DeclaredMax(result[t].parts.suboffset) + 2

(***************************************************************************)
(* Failure of the read of write_boolean_bit, and termination.              *)
(***************************************************************************)
\* The request f went through write_boolean_bit and its read (line 282)
\* raised: the read was issued and returned no bytes.
ReadFailed(f) == f.type = "DevBoolean" /\ f.reads = 1 /\ Len(f.data) = 0

\* C21: a bit write issues at most one accessor read and at most one accessor
\* write; when its read raised it issues no write, is not run again, and ends
\* by raising to the caller; and no step of a request whose read raised
\* changes the PLC memory.
C21_ReadFailureStops ==
  /\ [](\A t \in Threads :
         /\ frame[t].reads <= 1 /\ frame[t].writes <= 1
         /\ result[t].reads <= 1 /\ result[t].writes <= 1
         /\ ReadFailed(frame[t]) =>
              pc[t] = "wbb_exit" /\ frame[t].raised /\ frame[t].writes = 0
         /\ ReadFailed(result[t]) => result[t].raised /\ result[t].writes = 0)
  /\ [][\A t \in Threads :
         (pc'[t] # pc[t] /\ ReadFailed(frame[t])) =>
            /\ mem' = mem
            /\ pc'[t] = "idle"
            /\ result'[t].raised /\ ReadFailed(result'[t])]_vars

\* A bit write whose read raised has returned to its caller with the error,
\* and the other thread is in the middle of a bit write of its own.
C21_Witness ==
  \E t1, t2 \in Threads :
    /\ t1 # t2
    /\ pc[t1] = "idle" /\ result[t1].done /\ ReadFailed(result[t1])
    /\ result[t1].raised /\ result[t1].cause = "accessor"
    /\ pc[t2] = "wbb_write"

\* The scheduler runs every thread that can take a step: a thread that is
\* not waiting for a lock, or whose lock stays free, eventually takes its
\* next step, and every accessor call returns or raises.
Fairness == \A t \in Threads : WF_vars(Step(t))

\* Bits of offset 5 in two data blocks, a bit of offset 6, and an integer.
FairAttributes ==
  << <<"b0", <<"D", "B", "1", ".", "5", ".", "0">>, "DevBoolean">>,
     <<"c0", <<"D", "B", "2", ".", "5", ".", "0">>, "DevBoolean">>,
     <<"d1", <<"D", "B", "1", ".", "6", ".", "1">>, "DevBoolean">>,
     <<"n0", <<"D", "B", "2", ".", "0">>, "DevLong">> >>

InitFair == InitDevice(FairAttributes, UniformMemories(InitBytes))

SpecFair == InitFair /\ [][Next]_vars /\ Fairness

\* The per-offset locks thread t holds.
HeldLocks(t) == {l \in 1..Len(lock_owner) : lock_owner[l] = t}

\* Thread t waits for a lock that another thread holds.
Waiting(t) ==
  \/ pc[t] = "wbb_acquire" /\ lock_owner[frame[t].lock] # NoThread
  \/ pc[t] = "wbb_create_acquire" /\ bit_byte_create_lock # NoThread

\* C22: a thread waiting for a per-offset lock does not hold
\* bit_byte_create_lock, a thread waiting for either kind of lock holds no
\* per-offset lock, no thread holds more than one per-offset lock, and every
\* bit write that has started eventually returns or raises.
C22_NoDeadlock ==
  /\ [](\A t \in Threads :
         /\ Cardinality(HeldLocks(t)) <= 1
         /\ pc[t] = "wbb_acquire" => bit_byte_create_lock # t
         /\ pc[t] \in {"wbb_acquire", "wbb_create_acquire"} => HeldLocks(t) = {}
         /\ bit_byte_create_lock = t =>
              pc[t] \in {"wbb_create_store", "wbb_create_release"})
  /\ \A t \in Threads : InWriteBooleanBit(t) ~> (pc[t] = "idle" /\ result[t].done)

\* A bit write waits for bit_byte_create_lock, which the other thread holds
\* while it stores the lock of another offset; a lock of the table is held.
C22_Witness ==
  \E t1, t2 \in Threads :
    /\ Waiting(t1) /\ pc[t1] = "wbb_create_acquire"
    /\ bit_byte_create_lock = t2 /\ pc[t2] = "wbb_create_store"
    /\ frame[t1].parts.offset # frame[t2].parts.offset
    /\ HeldLocks(t1) = {} /\ HeldLocks(t2) = {}

====
